---- MODULE Spec2Model ----
(***************************************************************************)
(* Model of the order placer: binance_client.py (BinanceFuturesClient) and *)
(* cli_handler.py (OrderCLI, main).                                        *)
(*                                                                         *)
(* Strings the code inspects (symbol, side, order type, confirmation) are  *)
(* sequences of one-character strings, so that upper(), lower(), strip()   *)
(* and len() are computed.  A number is a record [k, v]: k is the kind     *)
(* ("num", "nan", "inf", "tiny", "bad", "empty", "none") and v, for "num", *)
(* counts units of 10^-(digits+1) where digits is the precision the value  *)
(* is later rounded to (8 for a quantity, 2 for a price): v = 4 is a       *)
(* quantity of 0.000000004 or a price of 0.004.                            *)
(***************************************************************************)
EXTENDS Integers, Sequences, FiniteSets, TLC

VARIABLES
    pc,         \* position of the run
    mode,       \* "none", "interactive", "place", "client", "validate"
    args,       \* the raw inputs: symbol, side, order_type, quantity, price
    order,      \* what validate_inputs returned
    confirm,    \* the answer read at the confirmation prompt
    http,       \* the HTTP requests transmitted so far, in order
    now,        \* the clock, in milliseconds
    raised,     \* the last exception raised (type, message, cause)
    printed,    \* what the CLI reported last
    exit_code,  \* the process's exit status, -1 while it runs
    calls,      \* calls made on the client so far
    heap,       \* the parameter mapping a caller of the client holds
    ret         \* what the last call of the client returned

vars == <<pc, mode, args, order, confirm, http, now, raised, printed,
          exit_code, calls, heap, ret>>

-----------------------------------------------------------------------------
(* Bounds *)

\* numeric inputs range over -1 .. MaxNum units
MaxNum == 6
\* the clock never passes MaxTime
MaxTime == 2
\* calls a caller makes on the client in one session
MaxCalls == 2

-----------------------------------------------------------------------------
(* Strings *)

Lowers == <<"a","b","c","d","e","f","g","h","i","j","k","l","m",
            "n","o","p","q","r","s","t","u","v","w","x","y","z">>
Uppers == <<"A","B","C","D","E","F","G","H","I","J","K","L","M",
            "N","O","P","Q","R","S","T","U","V","W","X","Y","Z">>

UpperChar(c) ==
    IF \E i \in 1..26 : Lowers[i] = c
    THEN Uppers[CHOOSE i \in 1..26 : Lowers[i] = c]
    ELSE c

LowerChar(c) ==
    IF \E i \in 1..26 : Uppers[i] = c
    THEN Lowers[CHOOSE i \in 1..26 : Uppers[i] = c]
    ELSE c

upper(s) == [i \in 1..Len(s) |-> UpperChar(s[i])]
lower(s) == [i \in 1..Len(s) |-> LowerChar(s[i])]

RECURSIVE lstrip(_)
lstrip(s) == IF s # <<>> /\ Head(s) = " " THEN lstrip(Tail(s)) ELSE s

RECURSIVE rstrip(_)
rstrip(s) ==
    IF s # <<>> /\ s[Len(s)] = " " THEN rstrip(SubSeq(s, 1, Len(s) - 1)) ELSE s

strip(s) == rstrip(lstrip(s))

BUY == <<"B","U","Y">>
SELL == <<"S","E","L","L">>
MARKET == <<"M","A","R","K","E","T">>
LIMIT == <<"L","I","M","I","T">>
YES == <<"y","e","s">>

-----------------------------------------------------------------------------
(* Numbers *)

Num(k, v) == [k |-> k, v |-> v]
None == Num("none", 0)

\* an input as the CLI receives it: text typed at a prompt (t = "str"), a
\* float parsed by argparse (t = "float") or None (t = "none")
Raw(t, k, v) == [t |-> t, k |-> k, v |-> v]
RawNone == Raw("none", "none", 0)

\* `not x`: None, "" and 0.0 are falsy, the text "0" is not
Falsy(x) ==
    \/ x.t = "none"
    \/ x.t = "str" /\ x.k = "empty"
    \/ x.t = "float" /\ x.k = "num" /\ x.v = 0

\* Decimal(x) raises InvalidOperation on text that is not a number
DecimalRaises(x) == x.t = "str" /\ x.k \in {"empty", "bad"}
Decimal(x) == Num(x.k, x.v)

\* d <= 0 on a Decimal raises InvalidOperation when d is NaN
LeqZeroRaises(d) == d.k = "nan"
LeqZero(d) == d.k = "num" /\ d.v <= 0

\* bool(d) of a Decimal or None
DecFalsy(d) == d.k = "none" \/ (d.k = "num" /\ d.v = 0)

\* float(d): a positive Decimal below the smallest double becomes 0.0
float(d) == IF d.k = "tiny" THEN Num("num", 0) ELSE d

\* round(x, digits): x counts units of 10^-(digits+1).  A decimal tie is not
\* a double, and the nearest double lies on either side of it (round(0.005,
\* 2) is 0.01, round(0.015, 2) is 0.01), so a tie has both outcomes.
round(x) ==
    IF x.k # "num" THEN {x}
    ELSE LET r == x.v % 10
             base == x.v - r
         IN  IF r < 5 THEN {Num("num", base)}
             ELSE IF r > 5 THEN {Num("num", base + 10)}
             ELSE {Num("num", base), Num("num", base + 10)}

-----------------------------------------------------------------------------
(* OrderCLI.validate_inputs *)

MinSymbolLen == 6

E_SYMBOL == "Symbol must be at least 6 characters (e.g., BTCUSDT)"
E_SIDE == "Side must be either 'BUY' or 'SELL'"
E_TYPE == "Order type must be either 'MARKET' or 'LIMIT'"
E_QTY_POS == "Quantity must be greater than 0"
E_QTY_NUM == "Quantity must be a valid number"
E_PRICE_REQ == "Price is required for LIMIT orders"
E_PRICE_POS == "Price must be greater than 0"
E_PRICE_NUM == "Price must be a valid number"

SymbolErrors(symbol) ==
    IF symbol = <<>> \/ Len(symbol) < MinSymbolLen THEN <<E_SYMBOL>> ELSE <<>>

SideErrors(side) ==
    IF upper(side) \notin {BUY, SELL} THEN <<E_SIDE>> ELSE <<>>

TypeErrors(order_type) ==
    IF upper(order_type) \notin {MARKET, LIMIT} THEN <<E_TYPE>> ELSE <<>>

QuantityErrors(quantity) ==
    IF DecimalRaises(quantity) \/ LeqZeroRaises(Decimal(quantity))
        THEN <<E_QTY_NUM>>
    ELSE IF LeqZero(Decimal(quantity)) THEN <<E_QTY_POS>>
    ELSE <<>>

PriceErrors(order_type, price) ==
    IF upper(order_type) # LIMIT THEN <<>>
    ELSE IF Falsy(price) THEN <<E_PRICE_REQ>>
    ELSE IF DecimalRaises(price) \/ LeqZeroRaises(Decimal(price))
        THEN <<E_PRICE_NUM>>
    ELSE IF LeqZero(Decimal(price)) THEN <<E_PRICE_POS>>
    ELSE <<>>

\* validate_inputs raising on the first failing check
validate_inputs_errors_first(symbol, side, order_type, quantity, price) ==
    SubSeq(SymbolErrors(symbol) \o SideErrors(side) \o TypeErrors(order_type)
            \o QuantityErrors(quantity) \o PriceErrors(order_type, price),
           1, 1)

\* the list `errors` at line 71, in the order the checks append to it
validate_inputs_errors(symbol, side, order_type, quantity, price) ==
    SymbolErrors(symbol) \o SideErrors(side) \o TypeErrors(order_type)
        \o QuantityErrors(quantity) \o PriceErrors(order_type, price)

\* price_val at lines 59-65: a Decimal only for a LIMIT order with a price
price_val(order_type, price) ==
    IF upper(order_type) = LIMIT /\ ~Falsy(price) /\ ~DecimalRaises(price)
    THEN Decimal(price)
    ELSE None

NoOrder ==
    [ok |-> FALSE, symbol |-> <<>>, side |-> <<>>, order_type |-> <<>>,
     quantity |-> None, price |-> None]

\* the tuple returned at lines 74-80
validate_inputs_return(symbol, side, order_type, quantity, price) ==
    [ok |-> TRUE,
     symbol |-> upper(symbol),
     side |-> upper(side),
     order_type |-> upper(order_type),
     quantity |-> float(Decimal(quantity)),
     price |-> IF DecFalsy(price_val(order_type, price)) THEN None
               ELSE float(price_val(order_type, price))]

-----------------------------------------------------------------------------
(* Exceptions: the class raised, its message (a list of lines), the function *)
(* that raised it and the event that caused it                              *)

Exc(type, msg, src, cause) ==
    [type |-> type, msg |-> msg, src |-> src, cause |-> cause]
NoError == Exc("none", <<>>, "none", "none")
ValueError(msgs, src) == Exc("ValueError", msgs, src, "validation")

-----------------------------------------------------------------------------
(* Parameter mappings: a dict is the sequence of its <<key, value>> items, *)
(* in insertion order                                                      *)

HasKey(d, k) == \E i \in 1..Len(d) : d[i][1] = k

\* d[k] = v: an existing key keeps its position, a new one goes last
DictSet(d, k, v) ==
    IF HasKey(d, k)
    THEN [i \in 1..Len(d) |-> IF d[i][1] = k THEN <<k, v>> ELSE d[i]]
    ELSE Append(d, <<k, v>>)

DictGet(d, k) == d[CHOOSE i \in 1..Len(d) : d[i][1] = k][2]

RECURSIVE Without(_, _)
Without(d, k) ==
    IF d = <<>> THEN <<>>
    ELSE IF Head(d)[1] = k THEN Without(Tail(d), k)
    ELSE <<Head(d)>> \o Without(Tail(d), k)

Keys(d) == {d[i][1] : i \in 1..Len(d)}

-----------------------------------------------------------------------------
(* BinanceFuturesClient *)

SECRET_KEY == "secret"

\* urllib.parse.urlencode: "k1=v1&k2=v2" in the mapping's order
RECURSIVE urlencode(_)
urlencode(params) ==
    IF params = <<>> THEN ""
    ELSE Head(params)[1] \o "=" \o ToString(Head(params)[2])
         \o (IF Len(params) > 1 THEN "&" \o urlencode(Tail(params)) ELSE "")

\* HMAC-SHA256 as a symbolic digest of key and message: distinct messages
\* have distinct digests
generate_signature(params) ==
    "hmac_sha256(" \o SECRET_KEY \o "," \o urlencode(params) \o ")"

\* lines 43-45: the mapping passed in is updated in place
sign_params(params, t) ==
    LET stamped == DictSet(params, "timestamp", t)
    IN  DictSet(stamped, "signature", generate_signature(stamped))

request_params(params, signed, t) ==
    IF signed THEN sign_params(params, t) ELSE params

Request(method, endpoint, params, signed) ==
    [method |-> method, endpoint |-> endpoint, params |-> params,
     signed |-> signed]

\* what the exchange, or the network, answers to a transmitted request
Data(present, has_code, code, avgPrice) ==
    [present |-> present, has_code |-> has_code, code |-> code,
     avgPrice |-> avgPrice]
NoData == Data(FALSE, FALSE, 0, "absent")

Bodies ==
    {Data(TRUE, FALSE, 0, "absent"), Data(TRUE, FALSE, 0, "pos"),
     Data(TRUE, FALSE, 0, "zero"), Data(TRUE, FALSE, 0, "bad"),
     Data(TRUE, TRUE, 200, "absent"), Data(TRUE, TRUE, -1121, "absent")}

Answer(kind, body) == [kind |-> kind, body |-> body]
Answers ==
    {Answer(k, NoData) : k \in {"transport", "redirect", "http_error",
                                "bad_json"}}
    \cup {Answer("ok", b) : b \in Bodies}

Result(exc, data) == [exc |-> exc, data |-> data]

NetworkError(cause) ==
    Exc("Exception", <<"Network error">>, "send_request", cause)
InvalidResponse(cause) ==
    Exc("Exception", <<"Invalid response from server">>, "send_request", cause)
Redirected ==
    Exc("Exception", <<"Request redirected">>, "send_request", "redirect")

\* lines 50-60: only GET and POST reach the network
Transmits(method) == method \in {"GET", "POST"}

\* lines 47-73: the results of a call, given the answer to its request.
\* response.json() raises a ValueError that newer versions of the HTTP
\* library also derive from RequestException, so either handler may run.
send_request_results(method, answer) ==
    IF ~Transmits(method)
        THEN {Result(InvalidResponse("method"), NoData)}
    ELSE IF answer.kind = "transport"
        THEN {Result(NetworkError("transport"), NoData)}
    ELSE IF answer.kind = "redirect" /\ method = "POST"
        THEN {Result(Redirected, NoData)}
    ELSE IF answer.kind = "http_error"
        THEN {Result(NetworkError("http_error"), NoData)}
    ELSE IF answer.kind = "bad_json"
        THEN {Result(NetworkError("bad_json"), NoData),
              Result(InvalidResponse("bad_json"), NoData)}
    ELSE IF answer.kind = "redirect"
        THEN {Result(NoError, Data(TRUE, FALSE, 0, "absent"))}
    ELSE {Result(NoError, answer.body)}

\* lines 90-101: the first failing check raises
place_order_error(symbol, side, order_type, quantity, price) ==
    IF side \notin {BUY, SELL} THEN ValueError(<<E_SIDE>>, "place_order")
    ELSE IF order_type \notin {MARKET, LIMIT}
        THEN ValueError(<<E_TYPE>>, "place_order")
    ELSE IF order_type = LIMIT /\ price = None
        THEN ValueError(<<E_PRICE_REQ>>, "place_order")
    ELSE IF LeqZero(quantity) THEN ValueError(<<E_QTY_POS>>, "place_order")
    ELSE NoError

\* place_order sending price and timeInForce whatever the order type
limit_params_always(params, order_type, rprice) ==
    DictSet(DictSet(params, "timeInForce", "GTC"), "price", rprice)

\* lines 112-114
limit_params(params, order_type, rprice) ==
    IF order_type = LIMIT
    THEN DictSet(DictSet(params, "timeInForce", "GTC"), "price", rprice)
    ELSE params

\* lines 104-114: the mappings place_order may build (one per rounding)
place_order_params(symbol, side, order_type, quantity, price) ==
    {limit_params(<<<<"symbol", upper(symbol)>>, <<"side", side>>,
                    <<"type", order_type>>, <<"quantity", rq>>,
                    <<"newOrderRespType", "ACK">>>>, order_type, rp) :
        rq \in round(quantity), rp \in round(price)}

ORDER_ENDPOINT == "/api/v3/order"
PING_ENDPOINT == "/api/v3/ping"
ACCOUNT_ENDPOINT == "/api/v3/account"

\* test_connection probing with the order endpoint (the call left commented
\* out at line 136)
ping_request_order == Request("POST", ORDER_ENDPOINT, <<>>, TRUE)

\* line 137: the request test_connection makes
ping_request == Request("GET", PING_ENDPOINT, <<>>, FALSE)

-----------------------------------------------------------------------------
(* OrderCLI.format_order_response *)

\* lines 84-107: an error text, the order summary, or the ValueError that
\* float(response['avgPrice']) raises
format_order_response(response) ==
    IF response.has_code /\ response.code # 200
        THEN [exc |-> NoError, text |-> "error"]
    ELSE IF response.avgPrice = "bad"
        THEN [exc |-> Exc("ValueError", <<"could not convert string to float">>,
                          "format_order_response", "display"),
              text |-> "none"]
    ELSE [exc |-> NoError, text |-> "success"]


-----------------------------------------------------------------------------
(* Inputs *)

Numbers ==
    {Num("num", v) : v \in (-1..MaxNum) \cup {-10 * MaxNum, 10 * MaxNum}}
    \cup {Num("nan", 0), Num("inf", 0)}

\* what a user may type at a numeric prompt
TypedNumbers ==
    {Raw("str", n.k, n.v) : n \in Numbers}
    \cup {Raw("str", k, 0) : k \in {"empty", "bad", "tiny"}}

\* what argparse's type=float may deliver
FloatNumbers == {Raw("float", n.k, n.v) : n \in Numbers}

TypedSymbols ==
    {<<>>, <<" ","E","T","H","U","S">>, <<"e","t","h","u","s","d">>}
TypedSides == {<<"b","u","y"," ">>, SELL, <<"H","O","L","D">>}
TypedTypes == {MARKET, <<"l","i","m","i","t">>, <<"S","T","O","P">>}
TypedAnswers ==
    {YES, <<" ","Y","e","s"," ">>, <<"y">>, <<"n","o">>, <<>>}

ArgSymbols == {<<"b","t","c">>, <<"B","T","C","U","S","D","T">>}

Args(symbol, side, order_type, quantity, price) ==
    [symbol |-> symbol, side |-> side, order_type |-> order_type,
     quantity |-> quantity, price |-> price]
NoArgs == Args(<<>>, <<>>, <<>>, RawNone, RawNone)

Ret(flag, data) == [flag |-> flag, data |-> data]
NoRet == Ret(FALSE, NoData)

-----------------------------------------------------------------------------
(* cli_handler.py: main, OrderCLI *)

InitCLI ==
    /\ pc = "main"
    /\ mode = "none"
    /\ args = NoArgs
    /\ order = NoOrder
    /\ confirm = <<"?">>
    /\ http = <<>>
    /\ now = 0
    /\ raised = NoError
    /\ printed = "none"
    /\ exit_code = -1
    /\ calls = 0
    /\ heap = <<>>
    /\ ret = NoRet

\* the process ends: what it reported and its exit status
Exit(text, code) ==
    /\ printed' = text
    /\ exit_code' = code
    /\ pc' = "exited"

\* the except clauses: lines 168-174 (interactive), 214-217 (place)
Handle(exc) ==
    /\ raised' = exc
    /\ IF mode = "interactive"
       THEN Exit(IF exc.type = "ValueError" THEN "Validation Error"
                 ELSE "Error", 0)
       ELSE Exit("Error", 1)

\* lines 23-31: the credentials are missing or placeholders
init_fails ==
    /\ pc = "main"
    /\ Exit("Initialization error", 1)
    /\ UNCHANGED <<mode, args, order, confirm, http, now, raised, calls,
                   heap, ret>>

\* lines 253-254
main_interactive ==
    /\ pc = "main"
    /\ mode' = "interactive"
    /\ pc' = "test_connection"
    /\ UNCHANGED <<args, order, confirm, http, now, raised, printed,
                   exit_code, calls, heap, ret>>

\* lines 231-238, 255-256: argparse restricts side and order_type to the
\* choices and parses quantity and price as floats
main_place ==
    /\ pc = "main"
    /\ \E symbol \in ArgSymbols, side \in {BUY, SELL},
          order_type \in {MARKET, LIMIT}, quantity \in FloatNumbers,
          price \in FloatNumbers \cup {RawNone} :
            args' = Args(symbol, side, order_type, quantity, price)
    /\ mode' = "place"
    /\ pc' = "test_connection"
    /\ UNCHANGED <<order, confirm, http, now, raised, printed, exit_code,
                   calls, heap, ret>>

\* lines 118-122, 180-182 with test_connection (lines 133-140)
test_connection ==
    /\ pc = "test_connection"
    /\ http' = Append(http, ping_request)
    /\ \E answer \in Answers :
       \E res \in send_request_results(ping_request.method, answer) :
            /\ ret' = Ret(res.exc = NoError, NoData)
            /\ IF res.exc = NoError
               THEN /\ pc' = IF mode = "interactive" THEN "prompt"
                             ELSE "validate"
                    /\ UNCHANGED <<printed, exit_code>>
               ELSE Exit("Cannot connect",
                         IF mode = "interactive" THEN 0 ELSE 1)
    /\ UNCHANGED <<mode, args, order, confirm, now, raised, calls, heap>>

\* lines 125-132: the price is asked only for a LIMIT order
prompt_inputs ==
    /\ pc = "prompt"
    /\ \E symbol \in TypedSymbols, side \in TypedSides,
          order_type \in TypedTypes, quantity \in TypedNumbers,
          price \in TypedNumbers :
            args' = Args(strip(symbol), strip(side), strip(order_type),
                         quantity,
                         IF upper(strip(order_type)) = LIMIT THEN price
                         ELSE RawNone)
    /\ pc' = "validate"
    /\ UNCHANGED <<mode, order, confirm, http, now, raised, printed,
                   exit_code, calls, heap, ret>>

\* lines 170-171: Ctrl-C at a prompt
interrupted ==
    /\ mode = "interactive"
    /\ pc \in {"prompt", "confirm"}
    /\ raised' = Exc("KeyboardInterrupt", <<>>, "input", "interrupt")
    /\ Exit("Order cancelled by user", 0)
    /\ UNCHANGED <<mode, args, order, confirm, http, now, calls, heap, ret>>

\* lines 135-137, 185-187
validate ==
    /\ pc = "validate"
    /\ LET errors == validate_inputs_errors(args.symbol, args.side,
                        args.order_type, args.quantity, args.price)
       IN  IF errors # <<>>
           THEN /\ Handle(ValueError(errors, "validate_inputs"))
                /\ UNCHANGED order
           ELSE /\ order' = validate_inputs_return(args.symbol, args.side,
                                args.order_type, args.quantity, args.price)
                /\ pc' = IF mode = "interactive" THEN "confirm"
                         ELSE "place_order"
                /\ UNCHANGED <<raised, printed, exit_code>>
    /\ UNCHANGED <<mode, args, confirm, http, now, calls, heap, ret>>

\* the confirmation taken as given unless the answer is "no"
confirmed_unless_no(answer) == answer # <<"n","o">>

\* line 151
confirmed(answer) == answer = YES

\* lines 150-153
confirm_order ==
    /\ pc = "confirm"
    /\ \E answer \in TypedAnswers :
        /\ confirm' = lower(strip(answer))
        /\ IF confirmed(lower(strip(answer)))
           THEN pc' = "place_order" /\ UNCHANGED <<printed, exit_code>>
           ELSE Exit("Order cancelled", 0)
    /\ UNCHANGED <<mode, args, order, http, now, raised, calls, heap, ret>>

\* lines 157-163, 203-209 with place_order (lines 90-126) and the signed
\* POST it makes
place_order ==
    /\ pc = "place_order"
    /\ LET exc == place_order_error(order.symbol, order.side,
                      order.order_type, order.quantity, order.price)
       IN  IF exc # NoError
           THEN /\ Handle(exc)
                /\ UNCHANGED <<http, now, ret>>
           ELSE \E params \in place_order_params(order.symbol, order.side,
                                order.order_type, order.quantity, order.price),
                   t \in now..MaxTime, answer \in Answers :
                \E res \in send_request_results("POST", answer) :
                    /\ now' = t
                    /\ http' = Append(http, Request("POST", ORDER_ENDPOINT,
                                         request_params(params, TRUE, t), TRUE))
                    /\ ret' = Ret(res.exc = NoError, res.data)
                    /\ IF res.exc # NoError
                       THEN Handle(res.exc)
                       ELSE /\ pc' = "display"
                            /\ UNCHANGED <<raised, printed, exit_code>>
    /\ UNCHANGED <<mode, args, order, confirm, calls, heap>>

\* lines 166, 212: a response that is formatted ends the run normally
display ==
    /\ pc = "display"
    /\ LET f == format_order_response(ret.data)
       IN  IF f.exc # NoError
           THEN Handle(f.exc)
           ELSE Exit(f.text, 0) /\ UNCHANGED raised
    /\ UNCHANGED <<mode, args, order, confirm, http, now, calls, heap, ret>>

-----------------------------------------------------------------------------
(* A program that calls BinanceFuturesClient.place_order itself *)

OrderSymbols == {<<"b","t","c","u","s","d","t">>}
OrderSides == {BUY, <<"b","u","y">>, <<"H","O","L","D">>}
OrderTypes == {MARKET, LIMIT, <<"S","T","O","P">>}

InitOrder ==
    /\ pc = "call"
    /\ mode = "client"
    /\ \E symbol \in OrderSymbols, side \in OrderSides,
          order_type \in OrderTypes, quantity \in FloatNumbers,
          price \in FloatNumbers \cup {RawNone} :
            args = Args(symbol, side, order_type, quantity, price)
    /\ order = NoOrder
    /\ confirm = <<"?">>
    /\ http = <<>>
    /\ now = 0
    /\ raised = NoError
    /\ printed = "none"
    /\ exit_code = -1
    /\ calls = 0
    /\ heap = <<>>
    /\ ret = NoRet

\* the value a float or None argument carries
Value(x) == IF x.t = "none" THEN None ELSE Num(x.k, x.v)

\* binance_client.py lines 75-126: an exception goes to the caller
place_order_call ==
    /\ pc = "call"
    /\ LET exc == place_order_error(args.symbol, args.side, args.order_type,
                      Value(args.quantity), Value(args.price))
       IN  IF exc # NoError
           THEN /\ raised' = exc
                /\ UNCHANGED <<http, now, ret>>
           ELSE \E params \in place_order_params(args.symbol, args.side,
                                args.order_type, Value(args.quantity),
                                Value(args.price)),
                   t \in now..MaxTime, answer \in Answers :
                \E res \in send_request_results("POST", answer) :
                    /\ now' = t
                    /\ http' = Append(http, Request("POST", ORDER_ENDPOINT,
                                         request_params(params, TRUE, t), TRUE))
                    /\ ret' = Ret(res.exc = NoError, res.data)
                    /\ raised' = res.exc
    /\ pc' = "returned"
    /\ calls' = calls + 1
    /\ UNCHANGED <<mode, args, order, confirm, printed, exit_code, heap>>

Init == InitCLI \/ InitOrder

Next ==
    \/ place_order_call
    \/ init_fails
    \/ main_interactive
    \/ main_place
    \/ test_connection
    \/ prompt_inputs
    \/ interrupted
    \/ validate
    \/ confirm_order
    \/ place_order
    \/ display

Spec == Init /\ [][Next]_vars

-----------------------------------------------------------------------------
(* Properties of the CLI and of place_order, checked under Spec *)

Range(q) == {q[i] : i \in 1..Len(q)}

OrderRequests == {r \in Range(http) : r.endpoint = ORDER_ENDPOINT}
OrderPosted == OrderRequests # {}
InCLI == mode \in {"interactive", "place"}

\* a validation error of the order parameters has been reported to the user
ValidationReported ==
    /\ InCLI
    /\ pc = "exited"
    /\ raised.type = "ValueError"
    /\ raised.src \in {"validate_inputs", "place_order"}

\* C1: in the interactive path an order request is transmitted only after the
\* confirmation prompt was answered "yes" (read with strip().lower()); a run
\* that was answered otherwise, or that ended before the prompt, has
\* transmitted no order request.
C1_OrderOnlyAfterYes ==
    (mode = "interactive" /\ OrderPosted) => confirm = YES

C1_Witness ==
    /\ mode = "interactive"
    /\ OrderPosted
    /\ confirm = YES
    /\ pc = "exited"

\* C2 as stated: when a validation error is reported, no HTTP request of any
\* kind has been transmitted.
C2_NoRequestBeforeValidationError ==
    ValidationReported => http = <<>>

\* C2 amended: when a validation error is reported, the one request that has
\* been transmitted is the liveness ping; no order request has been.
C2_OnlyPingBeforeValidationError ==
    ValidationReported =>
        /\ ~OrderPosted
        /\ Len(http) = 1
        /\ http[1].method = "GET"
        /\ http[1].endpoint = "/api/v3/ping"

C2_Witness ==
    /\ ValidationReported
    /\ mode = "place"
    /\ raised.src = "validate_inputs"
    /\ Len(raised.msg) > 1

DirectReturned == mode = "client" /\ pc = "returned"

\* C3: place_order called with a quantity <= 0, or with a price that is
\* supplied and <= 0, fails with a validation error and transmits nothing.
C3_RejectsNonPositive ==
    (/\ DirectReturned
     /\ \/ LeqZero(Value(args.quantity))
        \/ LeqZero(Value(args.price)))
        => (raised.type = "ValueError" /\ http = <<>>)

\* the order was accepted: a response came back and carries no error code
Accepted == ret.flag /\ ~(ret.data.has_code /\ ret.data.code # 200)

\* C4: in argument mode exit status 0 occurs only when the order was
\* accepted; every failure ends the run with a status other than 0.
C4_ExitZeroOnlyWhenAccepted ==
    (mode = "place" /\ pc = "exited") =>
        /\ exit_code = 0 => (OrderPosted /\ Accepted)
        /\ raised # NoError => exit_code # 0

\* the constraints of place_order that the arguments violate
Violated(a) ==
    {c \in {"side", "type", "price", "quantity"} :
        \/ c = "side" /\ a.side \notin {BUY, SELL}
        \/ c = "type" /\ a.order_type \notin {MARKET, LIMIT}
        \/ c = "price" /\ a.order_type = LIMIT /\ a.price.t = "none"
        \/ c = "quantity" /\ LeqZero(Value(a.quantity))}

\* C7: the error place_order raises names every constraint the arguments
\* violate.
C7_AllViolationsReported ==
    (DirectReturned /\ Violated(args) # {}) =>
        /\ raised.type = "ValueError"
        /\ Len(raised.msg) = Cardinality(Violated(args))

PriceAbsent(x) == x.t = "none" \/ (x.t = "str" /\ x.k = "empty")

\* C8: a LIMIT order without a price fails validation, in validate_inputs and
\* in place_order, and no order request is transmitted; a MARKET order given
\* a price is accepted; a transmitted MARKET order has neither price nor
\* timeInForce and a transmitted LIMIT order has both.
C8_PriceIffLimit ==
    /\ (upper(args.order_type) = LIMIT /\ PriceAbsent(args.price)) =>
        /\ ~OrderPosted
        /\ ~order.ok
        /\ raised.src = "validate_inputs" => E_PRICE_REQ \in Range(raised.msg)
        /\ DirectReturned => (raised.type = "ValueError" /\ raised.src = "place_order")
    /\ (/\ DirectReturned
        /\ args.order_type = MARKET
        /\ ~PriceAbsent(args.price)
        /\ Violated(args) = {}) => OrderPosted
    /\ \A r \in OrderRequests :
        /\ DictGet(r.params, "type") \in {MARKET, LIMIT}
        /\ DictGet(r.params, "type") = LIMIT =>
                {"price", "timeInForce"} \subseteq Keys(r.params)
        /\ DictGet(r.params, "type") = MARKET =>
                {"price", "timeInForce"} \cap Keys(r.params) = {}

C8_Witness ==
    /\ DirectReturned
    /\ args.order_type = MARKET
    /\ ~PriceAbsent(args.price)
    /\ OrderPosted

Positive(x) == x.k = "inf" \/ (x.k = "num" /\ x.v > 0)

\* C10: an order request the CLI transmits for inputs that passed validation
\* carries a quantity > 0 and, for a LIMIT order, a price > 0, after rounding.
C10_TransmittedPositive ==
    (InCLI /\ order.ok) =>
        \A r \in OrderRequests :
            /\ Positive(DictGet(r.params, "quantity"))
            /\ DictGet(r.params, "type") = LIMIT =>
                    Positive(DictGet(r.params, "price"))

-----------------------------------------------------------------------------
(* A program that calls the client's request methods itself, holding on to *)
(* the mapping it passes                                                   *)

Methods == {"GET", "POST", "DELETE"}
FreshMappings == {<<<<"symbol", "BTCUSDT">>>>}

InitSend ==
    /\ pc = "client"
    /\ mode = "client"
    /\ args = NoArgs
    /\ order = NoOrder
    /\ confirm = <<"?">>
    /\ http = <<>>
    /\ now = 0
    /\ raised = NoError
    /\ printed = "none"
    /\ exit_code = -1
    /\ calls = 0
    /\ heap = <<>>
    /\ ret = NoRet

\* binance_client.py lines 35-73, called with a new mapping or with the one
\* the caller already holds; the mapping is updated in place
send_request_call ==
    /\ pc = "client"
    /\ calls < MaxCalls
    /\ \E method \in Methods, params \in FreshMappings \cup {heap},
          signed \in BOOLEAN, t \in now..MaxTime, answer \in Answers :
       \E res \in send_request_results(method, answer) :
            /\ now' = IF signed THEN t ELSE now
            /\ heap' = request_params(params, signed, t)
            /\ http' = IF Transmits(method)
                       THEN Append(http, Request(method, ACCOUNT_ENDPOINT,
                                request_params(params, signed, t), signed))
                       ELSE http
            /\ raised' = res.exc
            /\ ret' = Ret(res.exc = NoError, res.data)
    /\ calls' = calls + 1
    /\ UNCHANGED <<pc, mode, args, order, confirm, printed, exit_code>>

\* lines 128-131: a signed GET with a mapping of its own
get_account_info_call ==
    /\ pc = "client"
    /\ calls < MaxCalls
    /\ \E t \in now..MaxTime, answer \in Answers :
       \E res \in send_request_results("GET", answer) :
            /\ now' = t
            /\ http' = Append(http, Request("GET", ACCOUNT_ENDPOINT,
                                request_params(<<>>, TRUE, t), TRUE))
            /\ raised' = res.exc
            /\ ret' = Ret(res.exc = NoError, res.data)
    /\ calls' = calls + 1
    /\ UNCHANGED <<pc, mode, args, order, confirm, printed, exit_code, heap>>

\* lines 133-140: never raises
test_connection_call ==
    /\ pc = "client"
    /\ calls < MaxCalls
    /\ http' = Append(http, ping_request)
    /\ \E answer \in Answers :
       \E res \in send_request_results(ping_request.method, answer) :
            ret' = Ret(res.exc = NoError, NoData)
    /\ raised' = NoError
    /\ calls' = calls + 1
    /\ UNCHANGED <<pc, mode, args, order, confirm, now, printed, exit_code,
                   heap>>

NextSend ==
    \/ send_request_call
    \/ get_account_info_call
    \/ test_connection_call

SpecSend == InitSend /\ [][NextSend]_vars

\* C5: send reports each failure as the class of its cause and as no other:
\* a transport failure as a network error, a non-2xx status as an API error,
\* a malformed body as a parse error, an unsupported method as none of these.
C5_ClassifiedByCause ==
    raised.src = "send_request" =>
        /\ raised.msg = <<"Network error">> <=> raised.cause = "transport"
        /\ raised.msg = <<"Invalid response from server">>
                <=> raised.cause = "bad_json"

\* C6: the signature of every signed request transmitted is the signature of
\* exactly the other parameters transmitted, in their transmitted order.
C6_SignatureOverTransmitted ==
    \A r \in Range(http) :
        r.signed =>
            /\ HasKey(r.params, "timestamp")
            /\ DictGet(r.params, "signature")
                 = generate_signature(Without(r.params, "signature"))

-----------------------------------------------------------------------------
(* validate_inputs applied to every input tuple *)

AllSymbols == {strip(x) : x \in TypedSymbols} \cup ArgSymbols
AllSides == {strip(x) : x \in TypedSides} \cup {BUY}
AllTypes == {strip(x) : x \in TypedTypes} \cup {LIMIT}

InitValidate ==
    /\ pc = "call"
    /\ mode = "validate"
    /\ \E symbol \in AllSymbols, side \in AllSides, order_type \in AllTypes,
          quantity \in TypedNumbers \cup FloatNumbers,
          price \in TypedNumbers \cup FloatNumbers \cup {RawNone} :
            args = Args(symbol, side, order_type, quantity, price)
    /\ order = NoOrder
    /\ confirm = <<"?">>
    /\ http = <<>>
    /\ now = 0
    /\ raised = NoError
    /\ printed = "none"
    /\ exit_code = -1
    /\ calls = 0
    /\ heap = <<>>
    /\ ret = NoRet

\* cli_handler.py lines 33-80
validate_inputs_call ==
    /\ pc = "call"
    /\ LET errors == validate_inputs_errors(args.symbol, args.side,
                        args.order_type, args.quantity, args.price)
       IN  IF errors # <<>>
           THEN /\ raised' = ValueError(errors, "validate_inputs")
                /\ UNCHANGED order
           ELSE /\ order' = validate_inputs_return(args.symbol, args.side,
                                args.order_type, args.quantity, args.price)
                /\ UNCHANGED raised
    /\ pc' = "returned"
    /\ UNCHANGED <<mode, args, confirm, http, now, printed, exit_code, calls,
                   heap, ret>>

NextValidate == validate_inputs_call

SpecValidate == InitValidate /\ [][NextValidate]_vars

\* a valid positive number: text or a float that is a number above zero
PositiveNumber(x) ==
    /\ x.t \in {"str", "float"}
    /\ x.k \in {"num", "inf", "tiny"}
    /\ x.k = "num" => x.v > 0

\* the constraints of the CLI that the inputs violate
CliViolated(a) ==
    {c \in {"symbol", "side", "type", "quantity", "price"} :
        \/ c = "symbol" /\ Len(a.symbol) < 6
        \/ c = "side" /\ upper(a.side) \notin {BUY, SELL}
        \/ c = "type" /\ upper(a.order_type) \notin {MARKET, LIMIT}
        \/ c = "quantity" /\ ~PositiveNumber(a.quantity)
        \/ c = "price" /\ upper(a.order_type) = LIMIT
                       /\ ~PositiveNumber(a.price)}

ConstraintOf(m) ==
    CASE m = E_SYMBOL -> "symbol"
      [] m = E_SIDE -> "side"
      [] m = E_TYPE -> "type"
      [] m \in {E_QTY_POS, E_QTY_NUM} -> "quantity"
      [] m \in {E_PRICE_REQ, E_PRICE_POS, E_PRICE_NUM} -> "price"

\* the number a valid input stands for, as a float
Parsed(x) == IF x.k = "tiny" THEN Num("num", 0) ELSE Num(x.k, x.v)

\* C9: validate_inputs raises iff some constraint is violated; its message
\* has one entry for each violated constraint and none for a satisfied one;
\* otherwise it returns the upper-cased symbol, side and type with the
\* parsed quantity and, for a LIMIT order, the parsed price.
C9_EveryViolationReported ==
    pc = "returned" =>
        /\ raised.type = "ValueError" <=> CliViolated(args) # {}
        /\ raised.type = "ValueError" =>
            /\ Len(raised.msg) = Cardinality(CliViolated(args))
            /\ {ConstraintOf(m) : m \in Range(raised.msg)} = CliViolated(args)
            /\ ~order.ok
        /\ CliViolated(args) = {} =>
            /\ order.ok
            /\ order.symbol = upper(args.symbol)
            /\ order.side \in {BUY, SELL}
            /\ order.order_type \in {MARKET, LIMIT}
            /\ order.quantity = Parsed(args.quantity)
            /\ order.price = IF order.order_type = LIMIT
                             THEN Parsed(args.price) ELSE None

C9_Witness ==
    /\ mode = "validate"
    /\ pc = "returned"
    /\ Cardinality(CliViolated(args)) = 4
    /\ Len(raised.msg) = 4

====
